---- MODULE Spec2Model ----
(***************************************************************************)
(* Beam analysis engine (src/js/beam-analysis.js).                         *)
(*                                                                         *)
(* The file holds two variants of the engine, one after the other (lines   *)
(* 1-308 and 310-537).  `variant` says which one is loaded.                *)
(*                                                                         *)
(* JavaScript numbers are modelled as exact decimal-scaled rationals       *)
(* <<n, d, e>> = (n / d) * 10^e, kept in a canonical form (n / d in lowest *)
(* terms, neither n nor d a multiple of 5) so that equal numbers are equal *)
(* tuples.  Rounding of IEEE doubles is not modelled.    *)
(* A tuple with d = 0 is a value that is not a finite number (NaN,         *)
(* +-Infinity) or is `undefined`.                                          *)
(***************************************************************************)
EXTENDS Integers, Sequences, FiniteSets, TLC

\* ------------------------------------------------------------------------
\* Bounds of the model
\* ------------------------------------------------------------------------
MaxSpan == 2

MaxLoad == 1

MaxJ2 == 2

\* ------------------------------------------------------------------------
\* Numbers
\* ------------------------------------------------------------------------
Abs(n) == IF n < 0 THEN -n ELSE n

RECURSIVE GCD(_, _)
GCD(a, b) == IF b = 0 THEN a ELSE GCD(b, a % b)

RECURSIVE Pow10(_)
Pow10(k) == IF k = 0 THEN 1 ELSE 10 * Pow10(k - 1)

Zero == <<0, 1, 0>>

\* NaN, Infinity and -Infinity: every arithmetic operation on one of them
\* gives one of them again in this code (no finite number is divided by a
\* computed value, no computed value is compared).
NonFinite == <<0, 0, 0>>

\* the value of a variable that was declared and never assigned
Undefined == <<1, 0, 0>>

IsFinite(a) == a[2] > 0

RECURSIVE Norm(_, _, _)
Norm(n, d, e) ==
    IF n = 0 THEN Zero
    ELSE LET g == GCD(Abs(n), d) IN
         IF g > 1 THEN Norm(n \div g, d \div g, e)
         ELSE IF d % 5 = 0 THEN Norm(n * 2, d \div 5, e - 1)
         ELSE IF n % 5 = 0 THEN Norm(n \div 5, d * 2, e + 1)
         ELSE <<n, d, e>>

Num(k) == Norm(k, 1, 0)

\* k / 2, the sampling positions (the plotter steps x by 0.5)
Half(k) == Norm(k, 2, 0)

Mul(a, b) ==
    IF ~IsFinite(a) \/ ~IsFinite(b) THEN NonFinite
    ELSE LET g1 == GCD(Abs(a[1]), b[2])
             g2 == GCD(Abs(b[1]), a[2])
         IN  IF a[1] = 0 \/ b[1] = 0 THEN Zero
             ELSE Norm((a[1] \div g1) * (b[1] \div g2),
                       (a[2] \div g2) * (b[2] \div g1), a[3] + b[3])

Div(a, b) ==
    IF ~IsFinite(a) \/ ~IsFinite(b) THEN NonFinite
    ELSE IF b[1] = 0 THEN NonFinite
    ELSE Mul(a, <<(IF b[1] < 0 THEN -b[2] ELSE b[2]), Abs(b[1]), -b[3]>>)

Add(a, b) ==
    IF ~IsFinite(a) \/ ~IsFinite(b) THEN NonFinite
    ELSE LET e  == IF a[3] < b[3] THEN a[3] ELSE b[3]
             g  == GCD(a[2], b[2])
             na == a[1] * Pow10(a[3] - e) * (b[2] \div g)
             nb == b[1] * Pow10(b[3] - e) * (a[2] \div g)
         IN  Norm(na + nb, (a[2] \div g) * b[2], e)

Neg(a) == IF ~IsFinite(a) THEN NonFinite ELSE <<-a[1], a[2], a[3]>>

Sub(a, b) == Add(a, Neg(b))

RECURSIVE Pow(_, _)
Pow(a, k) == IF k = 0 THEN Num(1) ELSE Mul(a, Pow(a, k - 1))

\* comparisons of finite numbers
Le(a, b) == Sub(b, a)[1] >= 0

Lt(a, b) == Sub(b, a)[1] > 0

Gt(a, b) == Lt(b, a)

\* ------------------------------------------------------------------------
\* Data types
\* ------------------------------------------------------------------------
Material(name, properties) == [name |-> name, properties |-> properties]

Beam(primarySpan, secondarySpan, material) ==
    [primarySpan |-> primarySpan, secondarySpan |-> secondarySpan,
     material |-> material]

\* calculateReactions with the sign of R3 slipped in the middle reaction
calculateReactions_SignSlip(w, L1, L2) ==
    LET M1 == Div(Neg(Add(Mul(w, Pow(L1, 3)), Mul(w, Pow(L2, 3)))),
                  Mul(Num(8), Add(L1, L2)))
        R1 == Add(Div(M1, L1), Div(Mul(w, L1), Num(2)))
        R3 == Add(Div(M1, L2), Div(Mul(w, L2), Num(2)))
        R2 == Add(Sub(Mul(w, Add(L1, L2)), R1), R3)
    IN  [M1 |-> M1, R1 |-> R1, R2 |-> R2, R3 |-> R3]

\* Beam.calculateReactions (first variant only)
calculateReactions(w, L1, L2) ==
    LET M1 == Div(Neg(Add(Mul(w, Pow(L1, 3)), Mul(w, Pow(L2, 3)))),
                  Mul(Num(8), Add(L1, L2)))
        R1 == Add(Div(M1, L1), Div(Mul(w, L1), Num(2)))
        R3 == Add(Div(M1, L2), Div(Mul(w, L2), Num(2)))
        R2 == Sub(Sub(Mul(w, Add(L1, L2)), R1), R3)
    IN  [M1 |-> M1, R1 |-> R1, R2 |-> R2, R3 |-> R3]

\* ------------------------------------------------------------------------
\* Simply supported analyzer, first variant
\* ------------------------------------------------------------------------
simplySupported_getDeflectionEquation(beam, load, x) ==
    LET L  == beam.primarySpan
        EI == Div(beam.material.properties.EI, <<1, 1, 8>>)
        w  == load
        delta ==
            Mul(Mul(Neg(Div(Mul(w, x), Mul(Num(24), EI))),
                    Add(Sub(Pow(L, 3), Mul(Mul(Num(2), L), Pow(x, 2))),
                        Pow(x, 3))),
                Num(1000))
    IN  [x |-> x, y |-> delta]

\* the bending moment with (L + x) written for (L - x)
simplySupported_getBendingMomentEquation_WrongSign(beam, load, x) ==
    LET L == beam.primarySpan
        w == load
        M == Div(Mul(Mul(w, x), Add(L, x)), Num(2))
    IN  [x |-> x, y |-> M]

simplySupported_getBendingMomentEquation(beam, load, x) ==
    LET L == beam.primarySpan
        w == load
        M == Div(Mul(Mul(w, x), Sub(L, x)), Num(2))
    IN  [x |-> x, y |-> M]

simplySupported_getShearForceEquation(beam, load, x) ==
    LET L == beam.primarySpan
        w == load
        V == Mul(w, Sub(Div(L, Num(2)), x))
    IN  [x |-> x, y |-> V]

\* ------------------------------------------------------------------------
\* Simply supported analyzer, second variant.  j2 is read when the equation
\* is built (line 425), so the closure holds the value read then.
\* ------------------------------------------------------------------------
simplySupported2_getDeflectionEquation(beam, load, j2, x) ==
    LET L  == beam.primarySpan
        EI == beam.material.properties.EI
        w  == load
        delta == Div(Mul(Mul(Mul(w, x), x), Sub(Mul(Num(3), L), x)),
                     Mul(Num(6), EI))
    IN  [x |-> x, y |-> Mul(Mul(delta, Num(1000)), j2)]

simplySupported2_getBendingMomentEquation(beam, load, x) ==
    LET L == beam.primarySpan
        w == load
        M == Div(Mul(Mul(w, x), Sub(L, x)), Num(2))
    IN  [x |-> x, y |-> M]

simplySupported2_getShearForceEquation(beam, load, x) ==
    LET L == beam.primarySpan
        w == load
        V == Mul(w, Sub(Div(L, Num(2)), x))
    IN  [x |-> x, y |-> V]

\* ------------------------------------------------------------------------
\* Two-span analyzer, first variant
\* ------------------------------------------------------------------------
\* the expression of lines 200 and 208
twoSpanUnequal_deflectionSpan1(w, EI, L1, R1, x) ==
    Sub(Mul(Div(Mul(w, Pow(x, 2)), Mul(Num(24), EI)),
            Add(Sub(Mul(Num(6), Pow(L1, 2)), Mul(Mul(Num(4), L1), x)),
                Pow(x, 2))),
        Div(Mul(R1, Pow(x, 3)), Mul(Num(6), EI)))

\* the expression of lines 203 and 211
twoSpanUnequal_deflectionSpan2(w, EI, L1, R1, R2, x2) ==
    Sub(Add(Sub(Div(Mul(w, Pow(L1, 3)), Mul(Num(6), EI)),
                Div(Mul(R1, Pow(L1, 2)), Mul(Num(2), EI))),
            Div(Mul(R2, Pow(x2, 3)), Mul(Num(6), EI))),
        Div(Mul(w, Pow(x2, 4)), Mul(Num(24), EI)))

\* j2 is read inside the closure (line 186): the value at the time of the call
twoSpanUnequal_getDeflectionEquation(beam, load, j2, x) ==
    LET L1 == beam.primarySpan
        L2 == beam.secondarySpan
        w  == load
        EI == Div(beam.material.properties.EI, <<1, 1, 7>>)
        R1 == Div(Mul(Mul(w, L1), Add(Mul(Num(3), L2), Mul(Num(2), L1))),
                  Mul(Num(2), Add(L1, L2)))
        R2 == Sub(Mul(w, Add(L1, L2)), R1)
        delta ==
            IF L1 = L2
            THEN IF Le(x, L1)
                 THEN twoSpanUnequal_deflectionSpan1(w, EI, L1, R1, x)
                 ELSE IF Le(x, Add(L1, L2))
                 THEN twoSpanUnequal_deflectionSpan2(w, EI, L1, R1, R2, Sub(x, L1))
                 ELSE Undefined
            ELSE IF Le(x, L1)
                 THEN twoSpanUnequal_deflectionSpan1(w, EI, L1, R1, x)
                 ELSE IF Le(x, Add(L1, L2))
                 THEN twoSpanUnequal_deflectionSpan2(w, EI, L1, R1, R2, Sub(x, L1))
                 ELSE Undefined
    IN  [x |-> x, y |-> Mul(Mul(delta, Num(1000)), j2)]

\* first-span and second-span bending moment (lines 240/257 and 244/261)
twoSpanUnequal_momentSpan1(R1, w, x) ==
    Sub(Mul(R1, x), Div(Mul(w, Pow(x, 2)), Num(2)))

\* the second-span bending moment with the lever arm of R2 taken from x = 0
twoSpanUnequal_momentSpan2_NoOffset(R1, R2, L1, w, x) ==
    Sub(Add(Mul(R1, x), Mul(R2, x)), Div(Mul(w, Pow(x, 2)), Num(2)))

twoSpanUnequal_momentSpan2(R1, R2, L1, w, x) ==
    Sub(Add(Mul(R1, x), Mul(R2, Sub(x, L1))), Div(Mul(w, Pow(x, 2)), Num(2)))

twoSpanUnequal_getBendingMomentEquation(beam, load, x) ==
    LET L1 == beam.primarySpan
        L2 == beam.secondarySpan
        w  == load
        reactions == calculateReactions(load, L1, L2)
        R1 == reactions.R1
        R2 == reactions.R2
    IN  IF L1 = L2
        THEN IF Gt(x, Add(L1, L2)) THEN [x |-> x, y |-> Zero]
             ELSE IF Le(x, L1)
             THEN [x |-> x, y |-> twoSpanUnequal_momentSpan1(R1, w, x)]
             ELSE [x |-> x, y |-> twoSpanUnequal_momentSpan2(R1, R2, L1, w, x)]
        ELSE IF Gt(x, Add(L1, L2)) THEN [x |-> x, y |-> Zero]
             ELSE IF Le(x, L1)
             THEN [x |-> x, y |-> twoSpanUnequal_momentSpan1(R1, w, x)]
             ELSE [x |-> x, y |-> twoSpanUnequal_momentSpan2(R1, R2, L1, w, x)]

\* first-span and second-span shear force (lines 284/295 and 286/299)
twoSpanUnequal_shearSpan1(R1, w, x) == Sub(R1, Mul(w, x))

\* the second-span shear force without the middle reaction
twoSpanUnequal_shearSpan2_NoR2(R1, R2, w, x) == Sub(R1, Mul(w, x))

twoSpanUnequal_shearSpan2(R1, R2, w, x) == Sub(Add(R1, R2), Mul(w, x))

twoSpanUnequal_getShearForceEquation(beam, load, x) ==
    LET L1 == beam.primarySpan
        L2 == beam.secondarySpan
        w  == load
        reactions == calculateReactions(w, L1, L2)
        R1 == reactions.R1
        R2 == reactions.R2
    IN  IF L1 = L2
        THEN IF Gt(x, Add(L1, L2)) THEN [x |-> x, y |-> Zero]
             ELSE IF Le(x, L1)
             THEN [x |-> x, y |-> twoSpanUnequal_shearSpan1(R1, w, x)]
             ELSE [x |-> x, y |-> twoSpanUnequal_shearSpan2(R1, R2, w, x)]
        ELSE IF x = Zero THEN [x |-> x, y |-> R1]
             ELSE IF Lt(x, L1)
             THEN [x |-> x, y |-> twoSpanUnequal_shearSpan1(R1, w, x)]
             ELSE IF x = L1
             THEN [x |-> x, y |-> Sub(R1, Mul(w, L1))]
             ELSE IF Lt(x, Add(L1, L2))
             THEN [x |-> x, y |-> twoSpanUnequal_shearSpan2(R1, R2, w, x)]
             ELSE IF x = Add(L1, L2)
             THEN [x |-> x, y |-> Sub(Add(R1, R2), Mul(w, Add(L1, L2)))]
             ELSE [x |-> x, y |-> Undefined]

\* ------------------------------------------------------------------------
\* Two-span analyzer, second variant
\* ------------------------------------------------------------------------
\* R1 of lines 477, 500 and 521
twoSpanUnequal2_R1(w, L1, L2) ==
    Div(Mul(Mul(w, L2), Add(Mul(Num(3), L1), L2)), Mul(Num(8), Add(L1, L2)))

\* R2 of line 478
twoSpanUnequal2_R2(w, L1, L2) ==
    Div(Mul(Mul(w, L1), Add(Mul(Num(3), L2), L1)), Mul(Num(8), Add(L1, L2)))

\* the expression of lines 483 and 486: (R x^3/6 - w x^4/24 + w L^3 x/6) / EI
twoSpanUnequal2_deflectionSpan(R, w, L, EI, x) ==
    Div(Add(Sub(Div(Mul(R, Pow(x, 3)), Num(6)),
                Div(Mul(w, Pow(x, 4)), Num(24))),
            Div(Mul(Mul(w, Pow(L, 3)), x), Num(6))),
        EI)

twoSpanUnequal2_getDeflectionEquation(beam, load, x) ==
    LET EI == Div(beam.material.properties.EI, <<1, 1, 9>>)
        w  == load
        L1 == beam.primarySpan
        L2 == beam.secondarySpan
        R1 == twoSpanUnequal2_R1(w, L1, L2)
        R2 == twoSpanUnequal2_R2(w, L1, L2)
        delta ==
            IF Le(x, L1)
            THEN twoSpanUnequal2_deflectionSpan(R1, w, L1, EI, x)
            ELSE IF Le(x, Add(L1, L2))
            THEN twoSpanUnequal2_deflectionSpan(R2, w, L2, EI, Sub(x, L1))
            ELSE Zero
    IN  [x |-> x, y |-> Mul(delta, Num(1000))]

twoSpanUnequal2_momentSpan1(R1, w, x) ==
    Sub(Mul(R1, x), Div(Mul(w, Pow(x, 2)), Num(2)))

twoSpanUnequal2_momentSpan2(R1, L1, w, x) ==
    Sub(Mul(R1, L1), Div(Mul(w, Pow(Sub(x, L1), 2)), Num(2)))

twoSpanUnequal2_getBendingMomentEquation(beam, load, x) ==
    LET L1 == beam.primarySpan
        L2 == beam.secondarySpan
        w  == load
        R1 == twoSpanUnequal2_R1(w, L1, L2)
        M  == IF Le(x, L1) THEN twoSpanUnequal2_momentSpan1(R1, w, x)
              ELSE IF Le(x, Add(L1, L2))
              THEN twoSpanUnequal2_momentSpan2(R1, L1, w, x)
              ELSE Zero
    IN  [x |-> x, y |-> M]

twoSpanUnequal2_getShearForceEquation(beam, load, x) ==
    LET L1 == beam.primarySpan
        L2 == beam.secondarySpan
        w  == load
        R1 == twoSpanUnequal2_R1(w, L1, L2)
        V  == IF Le(x, L1) THEN Sub(R1, Mul(w, x))
              ELSE IF Le(x, Add(L1, L2)) THEN Sub(R1, Mul(w, Sub(x, L1)))
              ELSE Zero
    IN  [x |-> x, y |-> V]

\* ------------------------------------------------------------------------
\* State
\* ------------------------------------------------------------------------
VARIABLES
    variant,    \* which variant of the file is loaded: 1 (lines 1-308) or 2
    j2,         \* the number in the page's "j2" input, read by floatVal("j2")
    engine,     \* the BeamAnalysis object: options and analyzer table
    beam,       \* the caller's Beam object (with its Material)
    call,       \* the last query made on the engine and how it ended
    prev,       \* history: the query made before the last one
    sample,     \* <<>> or the {x, y} last returned by the current equation
    resample    \* <<>> or the {x, y} returned by calling it again at sample.x

vars == <<variant, j2, engine, beam, call, prev, sample, resample>>

Variants == {1, 2}

Spans == {Num(k) : k \in 1..MaxSpan}

SecondarySpans == {Num(k) : k \in 0..MaxSpan}

EIValues == {<<1, 1, 9>>, <<2, 1, 9>>}

Loads == {Num(k) : k \in (-MaxLoad)..MaxLoad}

J2Values == {Num(k) : k \in 1..MaxJ2}

\* sampling positions 0, 0.5, 1, ... up to one unit past the longest beam
XGrid == {Half(k) : k \in 0..(4 * MaxSpan + 2)}

RegisteredConditions == {"simply-supported", "two-span-unequal"}

\* names every JavaScript object inherits from Object.prototype
ObjectPrototypeKeys == {"constructor", "toString"}

Conditions == RegisteredConditions \cup ObjectPrototypeKeys \cup {"nonexistent"}

Beams ==
    {Beam(L1, L2, Material("steel", [EI |-> EI])) :
        <<L1, L2, EI>> \in Spans \X SecondarySpans \X EIValues}

\* floatVal is defined outside beam-analysis.js: it reads a number from the
\* page input of that id
floatVal(id) == IF id = "j2" THEN j2 ELSE NonFinite

\* ------------------------------------------------------------------------
\* The engine
\* ------------------------------------------------------------------------
\* the analyzer constructors are called without arguments (lines 57-58), so
\* this.beam and this.load are set to undefined (lines 125-128, 178-181)
simplySupported(v) ==
    [class |-> "simplySupported", variant |-> v,
     beam |-> Undefined, load |-> Undefined]

twoSpanUnequal(v) ==
    [class |-> "twoSpanUnequal", variant |-> v,
     beam |-> Undefined, load |-> Undefined]

BeamAnalysis(v) ==
    [options  |-> [condition |-> "simply-supported"],
     analyzer |-> [c \in RegisteredConditions |->
                     IF c = "simply-supported" THEN simplySupported(v)
                     ELSE twoSpanUnequal(v)]]

\* this.analyzer[condition]: an own property, a property inherited from
\* Object.prototype (a function, truthy, with none of the analyzer's
\* methods), or undefined
Lookup(table, condition) ==
    IF condition \in DOMAIN table
    THEN [kind |-> "analyzer", value |-> <<table[condition]>>]
    ELSE IF condition \in ObjectPrototypeKeys
    THEN [kind |-> "inherited", value |-> <<>>]
    ELSE [kind |-> "undefined", value |-> <<>>]

\* The closure an analyzer method returns: its code and what it closes over.
\* Only simplySupported.getDeflectionEquation of the second variant reads j2
\* while building the closure.
Equation(analyzer, quantity, b, load) ==
    [class |-> analyzer.class, variant |-> analyzer.variant,
     quantity |-> quantity, beam |-> b, load |-> load,
     j2 |-> IF analyzer.class = "simplySupported" /\ analyzer.variant = 2
               /\ quantity = "deflection"
            THEN floatVal("j2") ELSE Undefined]

\* equation(x)
Apply(eq, x) ==
    IF eq.variant = 1
    THEN IF eq.class = "simplySupported"
         THEN IF eq.quantity = "deflection"
              THEN simplySupported_getDeflectionEquation(eq.beam, eq.load, x)
              ELSE IF eq.quantity = "bendingMoment"
              THEN simplySupported_getBendingMomentEquation(eq.beam, eq.load, x)
              ELSE simplySupported_getShearForceEquation(eq.beam, eq.load, x)
         ELSE IF eq.quantity = "deflection"
              THEN twoSpanUnequal_getDeflectionEquation(eq.beam, eq.load,
                                                        floatVal("j2"), x)
              ELSE IF eq.quantity = "bendingMoment"
              THEN twoSpanUnequal_getBendingMomentEquation(eq.beam, eq.load, x)
              ELSE twoSpanUnequal_getShearForceEquation(eq.beam, eq.load, x)
    ELSE IF eq.class = "simplySupported"
         THEN IF eq.quantity = "deflection"
              THEN simplySupported2_getDeflectionEquation(eq.beam, eq.load,
                                                          eq.j2, x)
              ELSE IF eq.quantity = "bendingMoment"
              THEN simplySupported2_getBendingMomentEquation(eq.beam, eq.load, x)
              ELSE simplySupported2_getShearForceEquation(eq.beam, eq.load, x)
         ELSE IF eq.quantity = "deflection"
              THEN twoSpanUnequal2_getDeflectionEquation(eq.beam, eq.load, x)
              ELSE IF eq.quantity = "bendingMoment"
              THEN twoSpanUnequal2_getBendingMomentEquation(eq.beam, eq.load, x)
              ELSE twoSpanUnequal2_getShearForceEquation(eq.beam, eq.load, x)

\* the object a query returns
Result(b, load, equation) == [beam |-> b, load |-> load, equation |-> equation]

\* The body shared by getDeflection, getBendingMoment and getShearForce:
\* how the call ends and what it returns (<<>> when it throws).
Query(this, quantity, b, load, condition) ==
    LET analyzer == Lookup(this.analyzer, condition) IN
    IF analyzer.kind = "analyzer"
    THEN [outcome |-> "return",
          result  |-> <<Result(b, load,
                               Equation(analyzer.value[1], quantity, b, load))>>]
    ELSE IF analyzer.kind = "inherited"
    THEN [outcome |-> "TypeError", result |-> <<>>]
    ELSE [outcome |-> "Invalid condition", result |-> <<>>]

NoCall ==
    [method |-> "none", load |-> Zero, condition |-> "none",
     outcome |-> "none", result |-> <<>>]

Called(method, quantity, load, condition) ==
    LET q == Query(engine, quantity, beam, load, condition) IN
    [method |-> method, load |-> load, condition |-> condition,
     outcome |-> q.outcome, result |-> q.result]

Init ==
    /\ variant \in Variants
    /\ j2 \in J2Values
    /\ engine = BeamAnalysis(variant)
    /\ beam \in Beams
    /\ call = NoCall
    /\ prev = NoCall
    /\ sample = <<>>
    /\ resample = <<>>

getDeflection(load, condition) ==
    /\ call' = Called("getDeflection", "deflection", load, condition)
    /\ sample' = <<>>
    /\ resample' = <<>>
    /\ UNCHANGED <<variant, j2, engine, beam>>

getBendingMoment(load, condition) ==
    /\ call' = Called("getBendingMoment", "bendingMoment", load, condition)
    /\ sample' = <<>>
    /\ resample' = <<>>
    /\ UNCHANGED <<variant, j2, engine, beam>>

getShearForce(load, condition) ==
    /\ call' = Called("getShearForce", "shearForce", load, condition)
    /\ sample' = <<>>
    /\ resample' = <<>>
    /\ UNCHANGED <<variant, j2, engine, beam>>

GetDeflection ==
    \E load \in Loads, condition \in Conditions :
        getDeflection(load, condition) /\ UNCHANGED prev

GetBendingMoment ==
    \E load \in Loads, condition \in Conditions :
        getBendingMoment(load, condition) /\ UNCHANGED prev

GetShearForce ==
    \E load \in Loads, condition \in Conditions :
        getShearForce(load, condition) /\ UNCHANGED prev

\* the caller samples the returned equation at x
Evaluate ==
    /\ call.outcome = "return"
    /\ \E x \in XGrid : sample' = <<Apply(call.result[1].equation, x)>>
    /\ resample' = <<>>
    /\ UNCHANGED <<variant, j2, engine, beam, call, prev>>

\* the caller samples the same equation again at the same x
EvaluateAgain ==
    /\ sample # <<>>
    /\ resample' = <<Apply(call.result[1].equation, sample[1].x)>>
    /\ UNCHANGED <<variant, j2, engine, beam, call, prev, sample>>

\* the user types another number into the j2 input
SetJ2 ==
    /\ \E v \in J2Values \ {j2} : j2' = v
    /\ UNCHANGED <<variant, engine, beam, call, prev, sample, resample>>

Next ==
    \/ GetDeflection
    \/ GetBendingMoment
    \/ GetShearForce
    \/ Evaluate
    \/ EvaluateAgain
    \/ SetJ2

Spec == Init /\ [][Next]_vars

\* ------------------------------------------------------------------------
\* The same engine with the history of the previous query kept in `prev`
\* (no sampling)
\* ------------------------------------------------------------------------
GetDeflectionH ==
    \E load \in Loads, condition \in Conditions :
        getDeflection(load, condition) /\ prev' = call

GetBendingMomentH ==
    \E load \in Loads, condition \in Conditions :
        getBendingMoment(load, condition) /\ prev' = call

GetShearForceH ==
    \E load \in Loads, condition \in Conditions :
        getShearForce(load, condition) /\ prev' = call

NextH ==
    \/ GetDeflectionH
    \/ GetBendingMomentH
    \/ GetShearForceH
    \/ SetJ2

SpecHistory == Init /\ [][NextH]_vars

\* ------------------------------------------------------------------------
\* Shorthands for the properties
\* ------------------------------------------------------------------------
L1 == beam.primarySpan

L2 == beam.secondarySpan

Total == Add(L1, L2)

TwoSpan == L2 # Zero

Returned(method, condition) ==
    /\ call.method = method
    /\ call.condition = condition
    /\ call.outcome = "return"

Sampled(method, condition) == Returned(method, condition) /\ sample # <<>>

\* ------------------------------------------------------------------------
\* C1: a query with a condition that is not one of the two registered names
\* fails with the 'Invalid condition' error and returns nothing.
\* ------------------------------------------------------------------------
C1_UnregisteredConditionIsInvalid ==
    (call.method # "none" /\ call.condition \notin RegisteredConditions)
        => (call.outcome = "Invalid condition" /\ call.result = <<>>)

\* ------------------------------------------------------------------------
\* C2: for L1 > 0, L2 > 0 and every load w the reactions of
\* calculateReactions(w, L1, L2) are in vertical equilibrium,
\* R1 + R2 + R3 = w * (L1 + L2).
\* ------------------------------------------------------------------------
C2_VerticalEquilibrium ==
    (variant = 1 /\ TwoSpan /\ call.method # "none") =>
        LET r == calculateReactions(call.load, L1, L2) IN
        Add(Add(r.R1, r.R2), r.R3) = Mul(call.load, Total)

C2_Witness ==
    /\ variant = 1
    /\ L1 # L2 /\ TwoSpan
    /\ Sampled("getBendingMoment", "two-span-unequal")
    /\ call.load # Zero
    /\ calculateReactions(call.load, L1, L2).R3 # Zero

\* ------------------------------------------------------------------------
\* C3 as stated: the simply-supported bending moment is 0 at x = 0 and at
\* x = L, and over 0 <= x <= L it is at most w*L^2/8, the value at x = L/2,
\* for every load w.
\* ------------------------------------------------------------------------
MidspanMoment == Div(Mul(call.load, Pow(L1, 2)), Num(8))

C3_Original ==
    (Sampled("getBendingMoment", "simply-supported") /\ Le(sample[1].x, L1)) =>
        /\ sample[1].x = Zero => sample[1].y = Zero
        /\ sample[1].x = L1 => sample[1].y = Zero
        /\ sample[1].x = Div(L1, Num(2)) => sample[1].y = MidspanMoment
        /\ Le(sample[1].y, MidspanMoment)

\* C3 amended: the simply-supported bending moment is 0 at x = 0 and at
\* x = L and w*L^2/8 at x = L/2; over 0 <= x <= L that value is the maximum
\* when w >= 0 and the minimum when w <= 0.
C3_MomentEndsAndExtremum ==
    (Sampled("getBendingMoment", "simply-supported") /\ Le(sample[1].x, L1)) =>
        /\ sample[1].x = Zero => sample[1].y = Zero
        /\ sample[1].x = L1 => sample[1].y = Zero
        /\ sample[1].x = Div(L1, Num(2)) => sample[1].y = MidspanMoment
        /\ Le(Zero, call.load) => Le(sample[1].y, MidspanMoment)
        /\ Le(call.load, Zero) => Le(MidspanMoment, sample[1].y)

C3_Witness ==
    /\ Sampled("getBendingMoment", "simply-supported")
    /\ Lt(Zero, call.load)
    /\ sample[1].x = Div(L1, Num(2))
    /\ sample[1].y = MidspanMoment
    /\ sample[1].y # Zero

\* ------------------------------------------------------------------------
\* C4: every simply-supported deflection equation returns y = 0 at x = 0 and
\* at x = L.
\* ------------------------------------------------------------------------
C4_SimpleDeflectionZeroAtSupports ==
    (Sampled("getDeflection", "simply-supported")
        /\ sample[1].x \in {Zero, L1}) => sample[1].y = Zero

\* ------------------------------------------------------------------------
\* C5: every two-span deflection equation returns y = 0 at x = 0 and at
\* x = L1 + L2, whatever j2 is.
\* ------------------------------------------------------------------------
C5_TwoSpanDeflectionZeroAtEnds ==
    (Sampled("getDeflection", "two-span-unequal") /\ TwoSpan
        /\ sample[1].x \in {Zero, Total}) => sample[1].y = Zero

\* ------------------------------------------------------------------------
\* C6: at the shared support the two-span shear force jumps by the middle
\* reaction: the second-span formula at x = L1 minus the value shearForce(L1)
\* returns (the first-span formula at L1) is R2 of calculateReactions.
\* ------------------------------------------------------------------------
C6_ShearJumpIsR2 ==
    (variant = 1 /\ TwoSpan /\ Sampled("getShearForce", "two-span-unequal")
        /\ sample[1].x = L1) =>
        LET r == calculateReactions(call.load, L1, L2) IN
        /\ sample[1].y = twoSpanUnequal_shearSpan1(r.R1, call.load, L1)
        /\ Sub(twoSpanUnequal_shearSpan2(r.R1, r.R2, call.load, L1),
               sample[1].y) = r.R2

C6_Witness ==
    /\ variant = 1 /\ TwoSpan /\ L1 # L2
    /\ Sampled("getShearForce", "two-span-unequal")
    /\ sample[1].x = L1
    /\ call.load # Zero
    /\ calculateReactions(call.load, L1, L2).R2 # Zero

\* ------------------------------------------------------------------------
\* C7: every two-span bending-moment equation is continuous at the shared
\* support: its first-span and second-span formulas agree at x = L1.
\* ------------------------------------------------------------------------
C7_MomentContinuousAtL1 ==
    (TwoSpan /\ Sampled("getBendingMoment", "two-span-unequal")
        /\ sample[1].x = L1) =>
        IF variant = 1
        THEN LET r == calculateReactions(call.load, L1, L2) IN
             /\ sample[1].y = twoSpanUnequal_momentSpan1(r.R1, call.load, L1)
             /\ sample[1].y =
                    twoSpanUnequal_momentSpan2(r.R1, r.R2, L1, call.load, L1)
        ELSE LET R1 == twoSpanUnequal2_R1(call.load, L1, L2) IN
             /\ sample[1].y = twoSpanUnequal2_momentSpan1(R1, call.load, L1)
             /\ sample[1].y = twoSpanUnequal2_momentSpan2(R1, L1, call.load, L1)

\* ------------------------------------------------------------------------
\* C8: an equation is a pure function of x: called twice with the same x it
\* returns the same y, whatever happens to the j2 input in between.
\* ------------------------------------------------------------------------
C8_EquationIsPure ==
    (resample # <<>> /\ (call.condition = "two-span-unequal" => TwoSpan))
        => resample[1].y = sample[1].y

\* ------------------------------------------------------------------------
\* C9: queries leave the analyzer table, the beam and the material as they
\* were, a returned result carries the beam and load of its call, and a
\* result depends only on the (beam, load, condition) of its own call.
\* ------------------------------------------------------------------------
SameArguments ==
    /\ prev.method = call.method
    /\ prev.load = call.load
    /\ prev.condition = call.condition

C9_QueriesAreFrameFreeAndDeterministic ==
    [][/\ engine' = engine
       /\ beam' = beam
       /\ call'.outcome = "return" =>
            (call'.result[1].beam = beam /\ call'.result[1].load = call'.load)
       /\ SameArguments' =>
            (prev'.outcome = call'.outcome /\ prev'.result = call'.result)]_vars

\* ------------------------------------------------------------------------
\* C10: for a two-span beam the bending-moment and the shear-force equation
\* return y = 0 at every x > L1 + L2.
\* ------------------------------------------------------------------------
C10_ZeroBeyondTheBeam ==
    (TwoSpan /\ sample # <<>> /\ call.condition = "two-span-unequal"
        /\ call.method \in {"getBendingMoment", "getShearForce"}
        /\ Gt(sample[1].x, Total)) => sample[1].y = Zero

\* ------------------------------------------------------------------------
\* C11: the two-span bending-moment equation built on calculateReactions is
\* 0 at both end supports, x = 0 and x = L1 + L2.
\* ------------------------------------------------------------------------
C11_MomentZeroAtEndSupports ==
    (variant = 1 /\ TwoSpan /\ Sampled("getBendingMoment", "two-span-unequal")
        /\ sample[1].x \in {Zero, Total}) => sample[1].y = Zero

C11_Witness ==
    /\ variant = 1 /\ TwoSpan /\ L1 # L2
    /\ Sampled("getBendingMoment", "two-span-unequal")
    /\ call.load # Zero
    /\ sample[1].x = Total
    /\ sample[1].y = Zero
    /\ calculateReactions(call.load, L1, L2).R2 # Zero

====
